---- MODULE Spec2Model ----
(***************************************************************************)
(* The family file-sharing application: the Upload, List and Delete        *)
(* endpoints over the Storage Directory (public/uploads), and the Upload   *)
(* Widget that drives them from the browser.                               *)
(*                                                                         *)
(* Strings the code takes apart (file names, identifiers, extensions) are  *)
(* sequences of one-character strings, so that split, pop, join,           *)
(* startsWith and toLowerCase are computed as JavaScript computes them.    *)
(* MIME types and messages, which the code only compares, are strings.     *)
(*                                                                         *)
(* Specifications, over one list of variables:                             *)
(*   Spec         the three endpoints, each request served in one step      *)
(*   ConcSpec     the List and Delete handlers interleaved at their awaits  *)
(*   WidgetSpec   the Upload Widget's onDrop, statuses and timers           *)
(*   ClientSpec   the Upload Widget with its fetch calls in flight          *)
(*   XhrSpec      the alternate (XMLHttpRequest) Upload Widget              *)
(*   PreviewSpec  the Preview Modal                                         *)
(*   ProbeSpec    the dropzone's pre-filter beside the server's validation  *)
(*                                                                         *)
(* Environment: a filesystem call succeeds whenever the path it names      *)
(* exists (readdir, stat, unlink) or its parent directory exists           *)
(* (writeFile); uuidv4() never returns an identifier it returned before.   *)
(***************************************************************************)
EXTENDS Integers, Sequences, FiniteSets, TLC

VARIABLES
  dirExists,   \* whether public/uploads exists
  files,       \* the Storage Directory, in readdir order: [name, bytes, birthtime]
  generated,   \* identifiers uuidv4() has returned
  now,         \* the server clock when it was last read, in milliseconds
  resp,        \* the last request served and its response
  uploads,     \* history: the successful upload responses, oldest first
  deletes,     \* history: the successful deletes, [id requested, fileName unlinked]
  uploadedFiles,   \* the widget's displayed list
  uploadStatuses,  \* the widget's status entries, keyed by file name
  drops,           \* the onDrop calls in progress: the files each has yet to settle
  timers,          \* the pending status-clear timeouts, oldest first: the names
  dropCount,       \* how many times the user has dropped files
  isLoading,       \* the widget's isLoading flag
  calls,           \* the widget's fetch calls that have not settled yet
  outcome,         \* history: the last deleteFile call settled, whether the list changed
  widgetFiles,     \* the alternate widget's displayed list (its state "files")
  uploadProgress,  \* the alternate widget's progress entries, keyed by file name
  xhrs,            \* the alternate widget's XMLHttpRequests sent and not yet loaded
  modal,           \* the Preview Modal: mounted, its props, its state
  overflow,        \* document.body.style.overflow
  textFetches,     \* the Preview Modal's text fetches that have not settled yet
  probe,           \* a candidate file and what the dropzone and the server said of it
  reqs             \* the requests of the concurrent server, each at its await point

serverVars == <<dirExists, files, generated, now, resp, uploads, deletes>>
widgetVars == <<uploadedFiles, uploadStatuses, drops, timers, dropCount>>
fetchVars == <<isLoading, calls, outcome>>
xhrVars == <<widgetFiles, uploadProgress, xhrs>>
previewVars == <<modal, overflow, textFetches>>
browserVars == <<widgetVars, fetchVars, xhrVars, previewVars, probe>>
\* what the Upload Widget of onDrop, statuses and timers leaves alone
asideVars == <<fetchVars, xhrVars, previewVars, probe, reqs>>
vars == <<dirExists, files, generated, now, resp, uploads, deletes,
          uploadedFiles, uploadStatuses, drops, timers, dropCount,
          isLoading, calls, outcome, widgetFiles, uploadProgress, xhrs,
          modal, overflow, textFetches, probe, reqs>>

----------------------------------------------------------------------------
(* Bounds of the model *)

\* uuidv4() is called at most this many times
MaxUploads == 2
\* the clock stops at this value
MaxTime == 1
\* the user drops files at most this many times
MaxDrops == 3

----------------------------------------------------------------------------
(* String helpers, as String.prototype and Array.prototype compute them *)

RECURSIVE SplitFrom(_, _, _, _)
SplitFrom(s, sep, i, cur) ==
  IF i > Len(s) THEN <<cur>>
  ELSE IF s[i] = sep THEN <<cur>> \o SplitFrom(s, sep, i + 1, <<>>)
  ELSE SplitFrom(s, sep, i + 1, Append(cur, s[i]))

\* s.split(sep) for a one-character separator: always at least one part
Split(s, sep) == SplitFrom(s, sep, 1, <<>>)

\* parts.pop(): the value returned, and the array left behind
Pop(parts) == parts[Len(parts)]
Popped(parts) == SubSeq(parts, 1, Len(parts) - 1)

RECURSIVE Join(_, _)
\* parts.join(sep)
Join(parts, sep) ==
  IF Len(parts) = 0 THEN <<>>
  ELSE IF Len(parts) = 1 THEN parts[1]
  ELSE parts[1] \o <<sep>> \o Join(Tail(parts), sep)

\* a slip: the whole entry name compared with the identifier
StartsWith_equal(s, p) == s = p

\* s.startsWith(p)
StartsWith(s, p) == Len(p) <= Len(s) /\ SubSeq(s, 1, Len(p)) = p

LowerChar(c) ==
  CASE c = "P" -> "p"
    [] c = "D" -> "d"
    [] c = "F" -> "f"
    [] OTHER -> c

\* s.toLowerCase()
ToLowerCase(s) == [i \in 1..Len(s) |-> LowerChar(s[i])]

----------------------------------------------------------------------------
(* The Upload Endpoint's constants *)

\* 10 * 1024 * 1024
MaxFileSize == 10 * 1024 * 1024

AllowedTypes ==
  { "image/jpeg", "image/png", "image/gif", "image/webp",
    "application/pdf",
    "text/plain", "text/markdown",
    "application/msword",
    "application/vnd.openxmlformats-officedocument.wordprocessingml.document" }

----------------------------------------------------------------------------
(* The List Endpoint's extension table *)

getFileType(extension) ==
  LET ext == ToLowerCase(extension) IN
  IF ext \in { <<"j","p","g">>, <<"j","p","e","g">>, <<"p","n","g">>,
               <<"g","i","f">>, <<"w","e","b","p">> }
    THEN (IF ext = <<"j","p","g">> THEN "image/jpeg"
          ELSE IF ext = <<"j","p","e","g">> THEN "image/jpeg"
          ELSE IF ext = <<"p","n","g">> THEN "image/png"
          ELSE IF ext = <<"g","i","f">> THEN "image/gif"
          ELSE "image/webp")
  ELSE IF ext = <<"p","d","f">> THEN "application/pdf"
  ELSE IF ext \in { <<"t","x","t">>, <<"m","d">> } THEN "text/plain"
  ELSE IF ext = <<"d","o","c">> THEN "application/msword"
  ELSE IF ext = <<"d","o","c","x">>
    THEN "application/vnd.openxmlformats-officedocument.wordprocessingml.document"
  ELSE "application/octet-stream"

----------------------------------------------------------------------------
(* The filesystem calls of fs/promises on the Storage Directory *)

\* readdir(uploadDir): the entry names, in directory order
Readdir(fs) == [i \in 1..Len(fs) |-> fs[i].name]

Exists(fs, name) == \E i \in 1..Len(fs) : fs[i].name = name

\* stat(filePath): the entry of that name
Stat(fs, name) == fs[CHOOSE i \in 1..Len(fs) : fs[i].name = name]

\* writeFile(filePath, buffer): replaces the content of an existing entry, else
\* creates one (born at t, at the place pos the directory gives it)
WriteFile(fs, name, buffer, t, pos) ==
  IF Exists(fs, name)
    THEN [i \in 1..Len(fs) |->
            IF fs[i].name = name THEN [fs[i] EXCEPT !.bytes = buffer] ELSE fs[i]]
    ELSE SubSeq(fs, 1, pos - 1)
           \o <<[name |-> name, bytes |-> buffer, birthtime |-> t]>>
           \o SubSeq(fs, pos, Len(fs))

\* unlink(filePath)
Unlink(fs, name) == SelectSeq(fs, LAMBDA f : f.name # name)

\* a path below the Storage Directory names an entry of it only when the name
\* holds no separator: writeFile to uploads/x/y fails, uploads/x not being there
HasSeparator(name) == \E i \in 1..Len(name) : name[i] = "/"

----------------------------------------------------------------------------
(* Requests and responses *)

NoName == <<>>
NoBytes == [data |-> "", size |-> 0]

\* formData.get('file') when the form holds no file
NoFile == [present |-> FALSE, name |-> NoName, type |-> "", bytes |-> NoBytes]

\* the request served (op, file or id), its response (status, error, the body's
\* id, filename and files), and the Storage Directory as the request found it
Response(op, status, error, file, id, filename, list) ==
  [op |-> op, status |-> status, error |-> error, file |-> file,
   id |-> id, filename |-> filename, files |-> list,
   before |-> [dirExists |-> dirExists, files |-> files]]

\* the static path the stored file is served from: `/uploads/${fileName}`
Url(fileName) == <<"/", "uploads", "/">> \o fileName

----------------------------------------------------------------------------
(* POST /api/upload *)

\* a slip: the limit counted in bits
TooLarge_unit(file) == file.bytes.size > 10 * 1024 * 1024 * 8

TooLarge(file) == file.bytes.size > MaxFileSize

\* a slip: the allow-list taken for the categories image, text and application
TypeAllowed_category(file) ==
  file.type \in AllowedTypes \cup {"application/zip", "text/csv", "image/bmp"}

TypeAllowed(file) == file.type \in AllowedTypes

\* a slip: the segment after the first "." instead of the last
FileExtension_first(name) ==
  LET parts == Split(name, ".") IN IF Len(parts) > 1 THEN parts[2] ELSE parts[1]

\* file.name.split('.').pop()
FileExtension(name) == Pop(Split(name, "."))

\* a slip: the whole original name appended instead of its extension
StoredName_fullName(fileId, name) == fileId \o <<".">> \o name

\* `${fileId}.${fileExtension}`
StoredName(fileId, name) == fileId \o <<".">> \o FileExtension(name)

\* a slip: the buffer made before the bytes have arrived
Buffer_empty(file) == NoBytes

\* Buffer.from(await file.arrayBuffer())
Buffer(file) == file.bytes

\* the validation failures: nothing is generated, nothing is written
PostReject(file) ==
  /\ ~file.present \/ TooLarge(file) \/ ~TypeAllowed(file)
  /\ resp' = Response("POST", 400,
                      IF ~file.present THEN "No file received."
                      ELSE IF TooLarge(file) THEN "File too large. Max size is 10MB."
                      ELSE "File type not allowed.",
                      file, <<>>, NoName, <<>>)
  /\ UNCHANGED <<dirExists, files, generated, now, uploads, deletes>>

\* the identifiers uuidv4() can return
UuidPool == { <<"a","1">>, <<"a","2">>, <<"b","1">> }

FreshIds == UuidPool \ generated

\* a valid file: a fresh identifier, mkdir, writeFile at clock reading t, the response
PostStore(file, fileId, pos, t) ==
  LET fileName == StoredName(fileId, file.name) IN
  /\ file.present /\ ~TooLarge(file) /\ TypeAllowed(file)
  /\ Cardinality(generated) < MaxUploads
  /\ fileId \in FreshIds
  /\ pos \in 1..(Len(files) + 1)
  /\ t \in now..MaxTime
  /\ generated' = generated \cup {fileId}
  /\ dirExists' = TRUE
  /\ IF HasSeparator(fileName)
       THEN /\ files' = files
            /\ now' = now
            /\ uploads' = uploads
            /\ resp' = Response("POST", 500, "Upload failed.",
                                file, <<>>, NoName, <<>>)
       ELSE /\ files' = WriteFile(files, fileName, Buffer(file), t, pos)
            /\ now' = t
            /\ uploads' = Append(uploads,
                                 [id |-> fileId, filename |-> fileName,
                                  originalName |-> file.name, url |-> Url(fileName),
                                  size |-> file.bytes.size, type |-> file.type,
                                  bytes |-> file.bytes])
            /\ resp' = Response("POST", 200, "", file, fileId, fileName, <<>>)
  /\ UNCHANGED deletes

----------------------------------------------------------------------------
(* GET /api/files *)

NullEntry ==
  [null |-> TRUE, id |-> <<>>, fileName |-> NoName, originalName |-> NoName,
   size |-> 0, uploadedAt |-> 0, url |-> <<>>, type |-> ""]

\* the body of files.map: stat, then the descriptor; null when stat throws
Descriptor(fs, fileName) ==
  IF ~Exists(fs, fileName) THEN NullEntry
  ELSE LET stats == Stat(fs, fileName)
           parts == Split(fileName, ".")
           extension == Pop(parts)
           id == Join(Popped(parts), ".")
       IN [null |-> FALSE, id |-> id, fileName |-> fileName,
           originalName |-> fileName, size |-> stats.bytes.size,
           uploadedAt |-> stats.birthtime, url |-> Url(fileName),
           type |-> getFileType(extension)]

\* a slip: the operands of the subtraction exchanged
Compare_ascending(a, b) == a.uploadedAt - b.uploadedAt

\* the comparator of sort: negative when a goes first
Compare(a, b) == b.uploadedAt - a.uploadedAt

RECURSIVE InsertSorted(_, _)
\* e goes before the first element the comparator puts after it
InsertSorted(s, e) ==
  IF s = <<>> THEN <<e>>
  ELSE IF Compare(s[1], e) > 0 THEN <<e>> \o s
  ELSE <<s[1]>> \o InsertSorted(Tail(s), e)

RECURSIVE Sort(_)
\* Array.prototype.sort with Compare: stable
Sort(s) == IF s = <<>> THEN <<>> ELSE InsertSorted(Sort(Popped(s)), Pop(s))

\* the list built from the names readdir gave and the directory the stats see
ValidFiles(names, fs) ==
  LET fileList == [i \in 1..Len(names) |-> Descriptor(fs, names[i])]
  IN Sort(SelectSeq(fileList, LAMBDA f : ~f.null))

\* a slip: readdir throwing reaches the outer catch
ListStatus_uncaught == IF dirExists THEN 200 ELSE 500

\* readdir throwing (no directory) is caught: the empty list, not an error
ListStatus == 200

ListFiles == IF dirExists THEN ValidFiles(Readdir(files), files) ELSE <<>>

Get ==
  /\ resp' = Response("GET", ListStatus, "", NoFile, <<>>, NoName, ListFiles)
  /\ UNCHANGED <<dirExists, files, generated, now, uploads, deletes>>

----------------------------------------------------------------------------
(* DELETE /api/upload/{id} *)

\* a slip: the last match taken instead of the first
Find_last(names, fileId) ==
  LET hits == { i \in 1..Len(names) : StartsWith(names[i], fileId) }
  IN IF hits = {} THEN 0 ELSE CHOOSE i \in hits : \A j \in hits : j <= i

\* files.find(file => file.startsWith(fileId)): the index, 0 for undefined
Find(names, fileId) ==
  LET hits == { i \in 1..Len(names) : StartsWith(names[i], fileId) }
  IN IF hits = {} THEN 0 ELSE CHOOSE i \in hits : \A j \in hits : i <= j

Delete(fileId) ==
  IF ~dirExists
    THEN /\ resp' = Response("DELETE", 404, "File not found or already deleted",
                             NoFile, fileId, NoName, <<>>)
         /\ UNCHANGED <<dirExists, files, generated, now, uploads, deletes>>
    ELSE LET names == Readdir(files)
             found == Find(names, fileId)
         IN IF found # 0
              THEN /\ files' = Unlink(files, names[found])
                   /\ deletes' = deletes \cup {[id |-> fileId, fileName |-> names[found]]}
                   /\ resp' = Response("DELETE", 200, "", NoFile, fileId, names[found], <<>>)
                   /\ UNCHANGED <<dirExists, generated, now, uploads>>
              ELSE /\ resp' = Response("DELETE", 404, "File not found",
                                       NoFile, fileId, NoName, <<>>)
                   /\ UNCHANGED <<dirExists, files, generated, now, uploads, deletes>>

----------------------------------------------------------------------------
(* The requests a client sends *)

Small == [data |-> "x", size |-> 3]
AtLimit == [data |-> "y", size |-> MaxFileSize]
OverLimit == [data |-> "z", size |-> MaxFileSize + 1]
ElevenMiB == [data |-> "w", size |-> 11 * 1024 * 1024]

File(name, type, bytes) == [present |-> TRUE, name |-> name, type |-> type, bytes |-> bytes]

RequestFiles ==
  { NoFile,
    File(<<"a", ".", "b", ".", "P", "D", "F">>, "application/pdf", AtLimit),  \* a.b.PDF
    File(<<"p", "d", "f">>, "text/plain", Small),                      \* pdf: no dot
    File(<<"a", ".">>, "image/png", Small),                            \* a.: trailing dot
    File(<<"a", ".", "b", "/", "c">>, "image/jpeg", Small),            \* a.b/c
    File(<<"a", ".", "j", "p", "g">>, "image/jpeg", OverLimit),
    File(<<"a", ".", "P", "D", "F">>, "application/zip", ElevenMiB),
    File(<<"a", ".", "j", "p", "g">>, "application/zip", Small) }

\* no deleteFile call has settled yet
NoOutcome == [op |-> "none", id |-> <<>>, status |-> 0, changed |-> FALSE]

\* the file prop of the Preview Modal when nothing is selected: null
NoPreview == [null |-> TRUE, type |-> "", url |-> <<>>]

\* the identifiers uuidv4() can return, and a prefix of two of them
RequestIds == UuidPool \cup { <<"a">> }

----------------------------------------------------------------------------
(* The server *)

Init ==
  /\ dirExists = FALSE
  /\ files = <<>>
  /\ generated = {}
  /\ now = 0
  /\ resp = [op |-> "none", status |-> 0, error |-> "", file |-> NoFile,
             id |-> <<>>, filename |-> NoName, files |-> <<>>,
             before |-> [dirExists |-> FALSE, files |-> <<>>]]
  /\ uploads = <<>>
  /\ deletes = {}
  /\ uploadedFiles = <<>>
  /\ uploadStatuses = <<>>
  /\ drops = <<>>
  /\ timers = <<>>
  /\ dropCount = 0
  /\ isLoading = TRUE
  /\ calls = <<>>
  /\ outcome = NoOutcome
  /\ widgetFiles = <<>>
  /\ uploadProgress = <<>>
  /\ xhrs = <<>>
  /\ modal = [mounted |-> FALSE, isOpen |-> FALSE, file |-> NoPreview,
              textContent |-> "", isLoading |-> FALSE, error |-> ""]
  /\ overflow = ""
  /\ textFetches = <<>>
  /\ probe = [file |-> NoFile, dropzone |-> "none", server |-> "none"]
  /\ reqs = <<>>

\* the endpoints, called by any client
ServerPost ==
  /\ \E file \in RequestFiles :
       \/ PostReject(file)
       \/ \E fileId \in FreshIds, pos \in 1..(Len(files) + 1), t \in now..MaxTime :
            PostStore(file, fileId, pos, t)
  /\ UNCHANGED <<browserVars, reqs>>

ServerGet == Get /\ UNCHANGED <<browserVars, reqs>>

ServerDelete ==
  (\E fileId \in RequestIds : Delete(fileId)) /\ UNCHANGED <<browserVars, reqs>>

Next == ServerPost \/ ServerGet \/ ServerDelete

Spec == Init /\ [][Next]_vars

----------------------------------------------------------------------------
(* The Upload Widget: onDrop and its status entries *)

Uploading == [status |-> "uploading", progress |-> 50, message |-> ""]
Success == [status |-> "success", progress |-> 100, message |-> "Upload complete!"]
Error(message) == [status |-> "error", progress |-> 0, message |-> message]

\* { ...prev, [name]: value }
SetStatus(prev, name, value) ==
  [n \in DOMAIN prev \cup {name} |-> IF n = name THEN value ELSE prev[n]]

\* delete newStatuses[name]
ClearStatus(prev, name) == [n \in DOMAIN prev \ {name} |-> prev[n]]

NamesOf(acceptedFiles) == { acceptedFiles[i].name : i \in 1..Len(acceptedFiles) }

\* onDrop up to its first await: every name uploading, the first fetch sent
OnDrop(acceptedFiles) ==
  /\ dropCount < MaxDrops
  /\ dropCount' = dropCount + 1
  /\ uploadStatuses' =
       [n \in DOMAIN uploadStatuses \cup NamesOf(acceptedFiles) |->
          IF n \in NamesOf(acceptedFiles) THEN Uploading ELSE uploadStatuses[n]]
  /\ drops' = Append(drops, acceptedFiles)
  /\ UNCHANGED <<uploadedFiles, timers>>
  /\ UNCHANGED serverVars
  /\ UNCHANGED asideVars

\* the loop goes on to the next file, or onDrop returns
Advance(d) ==
  IF Len(drops[d]) = 1
    THEN SubSeq(drops, 1, d - 1) \o SubSeq(drops, d + 1, Len(drops))
    ELSE [drops EXCEPT ![d] = Tail(@)]

\* fetch rejects (the network fails): the catch sets error
UploadFails(d) ==
  /\ d \in DOMAIN drops
  /\ uploadStatuses' = SetStatus(uploadStatuses, Head(drops[d]).name, Error("Upload failed"))
  /\ drops' = Advance(d)
  /\ UNCHANGED <<uploadedFiles, timers, dropCount>>
  /\ UNCHANGED serverVars
  /\ UNCHANGED asideVars

\* the Upload Endpoint serves the request and the await resumes with its response
UploadResponds(d) ==
  /\ d \in DOMAIN drops
  /\ LET file == Head(drops[d]) IN
     /\ \/ PostReject(file)
        \/ \E fileId \in FreshIds, pos \in 1..(Len(files) + 1), t \in now..MaxTime :
             PostStore(file, fileId, pos, t)
     /\ IF resp'.status \in 200..299
          THEN /\ uploadStatuses' = SetStatus(uploadStatuses, file.name, Success)
               /\ uploadedFiles' =
                    <<[id |-> resp'.id, fileName |-> resp'.filename,
                       originalName |-> file.name, size |-> file.bytes.size,
                       type |-> file.type, url |-> Url(resp'.filename),
                       uploadedAt |-> now']>> \o uploadedFiles
               /\ timers' = Append(timers, file.name)
          ELSE /\ uploadStatuses' =
                    SetStatus(uploadStatuses, file.name,
                              Error(IF resp'.error # "" THEN resp'.error ELSE "Upload failed"))
               /\ UNCHANGED <<uploadedFiles, timers>>
  /\ drops' = Advance(d)
  /\ UNCHANGED dropCount
  /\ UNCHANGED asideVars

\* a 2000 ms timeout set after a success runs: the entry of that name goes
TimerFires ==
  /\ timers # <<>>
  /\ uploadStatuses' = ClearStatus(uploadStatuses, Head(timers))
  /\ timers' = Tail(timers)
  /\ UNCHANGED <<uploadedFiles, drops, dropCount>>
  /\ UNCHANGED serverVars
  /\ UNCHANGED asideVars

\* what the dropzone hands to onDrop: a.jpg (image/jpeg) and n.csv (text/csv,
\* let through by the accept entry 'text/*')
Photo == File(<<"a", ".", "j", "p", "g">>, "image/jpeg", Small)
Sheet == File(<<"n", ".", "c", "s", "v">>, "text/csv", Small)

DropLists == { <<Photo>>, <<Sheet>>, <<Photo, Sheet>> }

WidgetNext ==
  \/ \E acceptedFiles \in DropLists : OnDrop(acceptedFiles)
  \/ \E d \in 1..MaxDrops : UploadFails(d)
  \/ \E d \in 1..MaxDrops : UploadResponds(d)
  \/ TimerFires

WidgetSpec == Init /\ [][WidgetNext]_vars

----------------------------------------------------------------------------
(* The fetch calls of a widget: sent, served by the endpoint, settled *)

\* a widget has at most this many fetch calls in flight
MaxCalls == 2

\* what the widget reads of a response: response.ok, response.json()
Answer(r) ==
  [status |-> r.status, error |-> r.error, id |-> r.id,
   filename |-> r.filename, files |-> r.files]

NoAnswer == [status |-> 0, error |-> "", id |-> <<>>, filename |-> NoName, files |-> <<>>]

\* fetch(...) sent: op is upload, list or delete; rest is what onDrop's loop
\* has still to send after this file
Call(op, id, file, rest) ==
  [op |-> op, id |-> id, file |-> file, rest |-> rest,
   answered |-> FALSE, response |-> NoAnswer, uploadedAt |-> 0]

Remove(s, i) == SubSeq(s, 1, i - 1) \o SubSeq(s, i + 1, Len(s))

\* response.ok
Ok(response) == response.status \in 200..299

IdsOf(list) == { list[i].id : i \in 1..Len(list) }

\* prev.filter(file => file.id !== fileId)
Filter(prev, fileId) == SelectSeq(prev, LAMBDA file : file.id # fileId)

\* the Delete Endpoint serves call i; its response is on the way back
ServeDelete(i) ==
  /\ i \in DOMAIN calls
  /\ calls[i].op = "delete" /\ ~calls[i].answered
  /\ Delete(calls[i].id)
  /\ calls' = [calls EXCEPT ![i].answered = TRUE, ![i].response = Answer(resp')]
  /\ UNCHANGED <<widgetVars, isLoading, outcome, xhrVars, previewVars, probe, reqs>>

----------------------------------------------------------------------------
(* The alternate Upload Widget: XMLHttpRequest uploads and its own list *)

xhrAside ==
  <<uploadedFiles, uploadStatuses, drops, timers, isLoading, previewVars, probe, reqs>>

\* the alternate widget has at most this many requests in flight
MaxXhrs == 2

\* Math.round((event.loaded / event.total) * 100) at the progress events seen
ProgressValues == {50, 100}

\* onDrop: one XMLHttpRequest per file, each sent before any has loaded
XhrOnDrop(acceptedFiles) ==
  /\ Len(xhrs) + Len(calls) + Len(acceptedFiles) <= MaxXhrs
  /\ xhrs' = xhrs \o acceptedFiles
  /\ UNCHANGED <<widgetFiles, uploadProgress, dropCount, calls, outcome>>
  /\ UNCHANGED serverVars
  /\ UNCHANGED xhrAside

\* a progress event of request i
XhrProgress(i, progress) ==
  /\ i \in DOMAIN xhrs
  /\ uploadProgress' = SetStatus(uploadProgress, xhrs[i].name, progress)
  /\ UNCHANGED <<widgetFiles, xhrs, dropCount, calls, outcome>>
  /\ UNCHANGED serverVars
  /\ UNCHANGED xhrAside

\* the Upload Endpoint serves request i and its load event runs
XhrLoad(i) ==
  /\ i \in DOMAIN xhrs
  /\ LET file == xhrs[i] IN
     /\ \/ PostReject(file)
        \/ \E fileId \in FreshIds, pos \in 1..(Len(files) + 1), t \in now..MaxTime :
             PostStore(file, fileId, pos, t)
     /\ IF resp'.status = 200
          THEN /\ widgetFiles' =
                    Append(widgetFiles,
                           [id |-> resp'.id, name |-> file.name,
                            size |-> file.bytes.size, type |-> file.type,
                            url |-> Url(resp'.filename), uploadedAt |-> now'])
               /\ uploadProgress' = ClearStatus(uploadProgress, file.name)
          ELSE UNCHANGED <<widgetFiles, uploadProgress>>
  /\ xhrs' = Remove(xhrs, i)
  /\ UNCHANGED <<dropCount, calls, outcome>>
  /\ UNCHANGED xhrAside

\* deleteFile up to its await: the user clicks the delete button of an entry
XhrDeleteFile(fileId) ==
  /\ fileId \in IdsOf(widgetFiles)
  /\ Len(xhrs) + Len(calls) < MaxXhrs
  /\ calls' = Append(calls, Call("delete", fileId, NoFile, <<>>))
  /\ UNCHANGED <<widgetFiles, uploadProgress, xhrs, dropCount, outcome>>
  /\ UNCHANGED serverVars
  /\ UNCHANGED xhrAside

\* the await resumes with a response, whatever its status: the entry goes
XhrDeleteSettles(i) ==
  /\ i \in DOMAIN calls
  /\ calls[i].op = "delete" /\ calls[i].answered
  /\ widgetFiles' = Filter(widgetFiles, calls[i].id)
  /\ outcome' = [op |-> "delete", id |-> calls[i].id,
                 status |-> calls[i].response.status,
                 changed |-> widgetFiles' # widgetFiles]
  /\ calls' = Remove(calls, i)
  /\ UNCHANGED <<uploadProgress, xhrs, dropCount>>
  /\ UNCHANGED serverVars
  /\ UNCHANGED xhrAside

\* fetch rejects (the network fails, before or after the endpoint served the
\* request): the catch logs
XhrDeleteFails(i) ==
  /\ i \in DOMAIN calls
  /\ calls[i].op = "delete"
  /\ outcome' = [op |-> "delete", id |-> calls[i].id, status |-> 0, changed |-> FALSE]
  /\ calls' = Remove(calls, i)
  /\ UNCHANGED <<widgetFiles, uploadProgress, xhrs, dropCount>>
  /\ UNCHANGED serverVars
  /\ UNCHANGED xhrAside

\* another browser deletes a stored file
OtherDelete ==
  (\E fileId \in UuidPool : Delete(fileId)) /\ UNCHANGED <<browserVars, reqs>>

XhrNext ==
  \/ \E acceptedFiles \in DropLists : XhrOnDrop(acceptedFiles)
  \/ \E i \in 1..MaxXhrs, progress \in ProgressValues : XhrProgress(i, progress)
  \/ \E i \in 1..MaxXhrs : XhrLoad(i)
  \/ \E fileId \in UuidPool : XhrDeleteFile(fileId)
  \/ \E i \in 1..MaxXhrs : ServeDelete(i)
  \/ \E i \in 1..MaxXhrs : XhrDeleteSettles(i)
  \/ \E i \in 1..MaxXhrs : XhrDeleteFails(i)
  \/ OtherDelete

XhrSpec == Init /\ [][XhrNext]_vars

----------------------------------------------------------------------------
(* The Upload Widget with its fetch calls in flight: fetchFiles, onDrop,      *)
(* deleteFile, each cut at its await                                         *)

\* the Upload Endpoint stores at most this many of this widget's uploads
MaxWidgetUploads == 1

clientAside == <<drops, dropCount, xhrVars, previewVars, probe, reqs>>

\* the mount effect has run: its fetchFiles is on the way or has settled
Mounted == ~isLoading \/ \E i \in DOMAIN calls : calls[i].op = "list"

\* what response.json() gives for the list body
Json(list) ==
  [k \in DOMAIN list |->
     [id |-> list[k].id, fileName |-> list[k].fileName,
      originalName |-> list[k].originalName, size |-> list[k].size,
      type |-> list[k].type, url |-> list[k].url, uploadedAt |-> list[k].uploadedAt]]

\* fetchFiles up to its await: the mount effect, later the Refresh button
\* (enabled once isLoading is false)
FetchFiles ==
  /\ Len(calls) < MaxCalls
  /\ ~Mounted \/ ~isLoading
  /\ calls' = Append(calls, Call("list", <<>>, NoFile, <<>>))
  /\ UNCHANGED <<uploadedFiles, uploadStatuses, timers, isLoading, outcome>>
  /\ UNCHANGED serverVars
  /\ UNCHANGED clientAside

\* onDrop up to its first await: every name uploading, the first fetch sent
ClientOnDrop(acceptedFiles) ==
  /\ Mounted
  /\ Len(calls) < MaxCalls
  /\ uploadStatuses' =
       [n \in DOMAIN uploadStatuses \cup NamesOf(acceptedFiles) |->
          IF n \in NamesOf(acceptedFiles) THEN Uploading ELSE uploadStatuses[n]]
  /\ calls' = Append(calls, Call("upload", <<>>, Head(acceptedFiles), Tail(acceptedFiles)))
  /\ UNCHANGED <<uploadedFiles, timers, isLoading, outcome>>
  /\ UNCHANGED serverVars
  /\ UNCHANGED clientAside

\* deleteFile up to its await: the user clicks the delete button of an entry
DeleteFile(fileId) ==
  /\ fileId \in IdsOf(uploadedFiles)
  /\ Len(calls) < MaxCalls
  /\ calls' = Append(calls, Call("delete", fileId, NoFile, <<>>))
  /\ UNCHANGED <<uploadedFiles, uploadStatuses, timers, isLoading, outcome>>
  /\ UNCHANGED serverVars
  /\ UNCHANGED clientAside

\* the Upload Endpoint serves call i; its response is on the way back
ServeUpload(i) ==
  /\ i \in DOMAIN calls
  /\ calls[i].op = "upload" /\ ~calls[i].answered
  /\ \/ PostReject(calls[i].file)
     \/ /\ Cardinality(generated) < MaxWidgetUploads
        /\ \E fileId \in FreshIds, pos \in 1..(Len(files) + 1), t \in now..MaxTime :
             PostStore(calls[i].file, fileId, pos, t)
  /\ calls' = [calls EXCEPT ![i].answered = TRUE, ![i].response = Answer(resp'),
                            ![i].uploadedAt = now']
  /\ UNCHANGED <<widgetVars, isLoading, outcome, xhrVars, previewVars, probe, reqs>>

\* the List Endpoint serves call i; its response is on the way back
ServeList(i) ==
  /\ i \in DOMAIN calls
  /\ calls[i].op = "list" /\ ~calls[i].answered
  /\ Get
  /\ calls' = [calls EXCEPT ![i].answered = TRUE, ![i].response = Answer(resp')]
  /\ UNCHANGED <<widgetVars, isLoading, outcome, xhrVars, previewVars, probe, reqs>>

\* the loop of onDrop goes on to its next file, or onDrop returns
Continue(i) ==
  IF calls[i].rest = <<>>
    THEN Remove(calls, i)
    ELSE [calls EXCEPT ![i] = Call("upload", <<>>, Head(calls[i].rest), Tail(calls[i].rest))]

\* the await of onDrop resumes with the response to call i
SettleUpload(i) ==
  /\ i \in DOMAIN calls
  /\ calls[i].op = "upload" /\ calls[i].answered
  /\ LET file == calls[i].file
         result == calls[i].response
     IN IF Ok(result)
          THEN /\ uploadStatuses' = SetStatus(uploadStatuses, file.name, Success)
               /\ uploadedFiles' =
                    <<[id |-> result.id, fileName |-> result.filename,
                       originalName |-> file.name, size |-> file.bytes.size,
                       type |-> file.type, url |-> Url(result.filename),
                       uploadedAt |-> calls[i].uploadedAt]>> \o uploadedFiles
               /\ timers' = Append(timers, file.name)
          ELSE /\ uploadStatuses' =
                    SetStatus(uploadStatuses, file.name,
                              Error(IF result.error # "" THEN result.error
                                    ELSE "Upload failed"))
               /\ UNCHANGED <<uploadedFiles, timers>>
  /\ calls' = Continue(i)
  /\ UNCHANGED <<isLoading, outcome>>
  /\ UNCHANGED serverVars
  /\ UNCHANGED clientAside

\* the fetch of onDrop rejects: the catch sets error
FailUpload(i) ==
  /\ i \in DOMAIN calls
  /\ calls[i].op = "upload"
  /\ uploadStatuses' = SetStatus(uploadStatuses, calls[i].file.name, Error("Upload failed"))
  /\ calls' = Continue(i)
  /\ UNCHANGED <<uploadedFiles, timers, isLoading, outcome>>
  /\ UNCHANGED serverVars
  /\ UNCHANGED clientAside

\* the await of fetchFiles resumes: the list is replaced, isLoading goes
SettleList(i) ==
  /\ i \in DOMAIN calls
  /\ calls[i].op = "list" /\ calls[i].answered
  /\ uploadedFiles' = IF Ok(calls[i].response)
                        THEN Json(calls[i].response.files) ELSE uploadedFiles
  /\ isLoading' = FALSE
  /\ calls' = Remove(calls, i)
  /\ UNCHANGED <<uploadStatuses, timers, outcome>>
  /\ UNCHANGED serverVars
  /\ UNCHANGED clientAside

\* the fetch of fetchFiles rejects: the catch logs, isLoading goes
FailList(i) ==
  /\ i \in DOMAIN calls
  /\ calls[i].op = "list"
  /\ isLoading' = FALSE
  /\ calls' = Remove(calls, i)
  /\ UNCHANGED <<uploadedFiles, uploadStatuses, timers, outcome>>
  /\ UNCHANGED serverVars
  /\ UNCHANGED clientAside

\* the await of deleteFile resumes: the entry goes when response.ok
SettleDelete(i) ==
  /\ i \in DOMAIN calls
  /\ calls[i].op = "delete" /\ calls[i].answered
  /\ uploadedFiles' = IF Ok(calls[i].response)
                        THEN Filter(uploadedFiles, calls[i].id) ELSE uploadedFiles
  /\ outcome' = [op |-> "delete", id |-> calls[i].id,
                 status |-> calls[i].response.status,
                 changed |-> uploadedFiles' # uploadedFiles]
  /\ calls' = Remove(calls, i)
  /\ UNCHANGED <<uploadStatuses, timers, isLoading>>
  /\ UNCHANGED serverVars
  /\ UNCHANGED clientAside

\* the fetch of deleteFile rejects: the catch logs
FailDelete(i) ==
  /\ i \in DOMAIN calls
  /\ calls[i].op = "delete"
  /\ outcome' = [op |-> "delete", id |-> calls[i].id, status |-> 0, changed |-> FALSE]
  /\ calls' = Remove(calls, i)
  /\ UNCHANGED <<uploadedFiles, uploadStatuses, timers, isLoading>>
  /\ UNCHANGED serverVars
  /\ UNCHANGED clientAside

ClientNext ==
  \/ FetchFiles
  \/ \E acceptedFiles \in DropLists : ClientOnDrop(acceptedFiles)
  \/ \E fileId \in UuidPool : DeleteFile(fileId)
  \/ \E i \in 1..MaxCalls : ServeUpload(i)
  \/ \E i \in 1..MaxCalls : ServeList(i)
  \/ \E i \in 1..MaxCalls : ServeDelete(i)
  \/ \E i \in 1..MaxCalls : SettleUpload(i)
  \/ \E i \in 1..MaxCalls : FailUpload(i)
  \/ \E i \in 1..MaxCalls : SettleList(i)
  \/ \E i \in 1..MaxCalls : FailList(i)
  \/ \E i \in 1..MaxCalls : SettleDelete(i)
  \/ \E i \in 1..MaxCalls : FailDelete(i)
  \/ TimerFires

ClientSpec == Init /\ [][ClientNext]_vars

----------------------------------------------------------------------------
(* The Preview Modal: its props, its state and its effects *)

\* the modal has at most this many text fetches in flight
MaxTextFetches == 2

previewAside == <<serverVars, widgetVars, fetchVars, xhrVars, probe, reqs>>

\* file.type.startsWith('text/'), over the types getFileType gives
TextTypes == {"text/plain", "text/markdown"}

Picture == [null |-> FALSE, type |-> "image/png", url |-> Url(<<"a", "1", ".", "p", "n", "g">>)]
Note == [null |-> FALSE, type |-> "text/plain", url |-> Url(<<"a", "2", ".", "t", "x", "t">>)]
Memo == [null |-> FALSE, type |-> "text/markdown", url |-> Url(<<"b", "1", ".", "m", "d">>)]

\* the file prop the parent passes
PreviewFiles == {NoPreview, Picture, Note, Memo}

\* what response.text() gives
Contents == {"hello", "Not Found"}

\* the first effect runs when file or isOpen changed
FetchesText(isOpen, file) == ~file.null /\ file.type \in TextTypes /\ isOpen

\* a slip: the else branch of the scroll effect left out, and no cleanup
ScrollEffect_noRestore(isOpen) == IF isOpen THEN "hidden" ELSE overflow

\* the third effect, run after the cleanup of its last run
ScrollEffect(isOpen) == IF isOpen THEN "hidden" ELSE "unset"

\* the cleanup of the third effect
ScrollCleanup == "unset"

\* the component mounts: useState initial values, then every effect runs
PreviewMount(isOpen, file) ==
  /\ ~modal.mounted
  /\ FetchesText(isOpen, file) => Len(textFetches) < MaxTextFetches
  /\ modal' = [mounted |-> TRUE, isOpen |-> isOpen, file |-> file, textContent |-> "",
               isLoading |-> FetchesText(isOpen, file), error |-> ""]
  /\ textFetches' = IF FetchesText(isOpen, file)
                      THEN Append(textFetches, file.url) ELSE textFetches
  /\ overflow' = ScrollEffect(isOpen)
  /\ UNCHANGED previewAside

\* the parent renders the modal with other props (open, close, next, previous):
\* the effects whose dependencies changed run again
PreviewProps(isOpen, file) ==
  /\ modal.mounted
  /\ isOpen # modal.isOpen \/ file # modal.file
  /\ FetchesText(isOpen, file) => Len(textFetches) < MaxTextFetches
  /\ modal' = [modal EXCEPT !.isOpen = isOpen, !.file = file,
                            !.isLoading = IF FetchesText(isOpen, file) THEN TRUE ELSE @,
                            !.error = IF FetchesText(isOpen, file) THEN "" ELSE @]
  /\ textFetches' = IF FetchesText(isOpen, file)
                      THEN Append(textFetches, file.url) ELSE textFetches
  /\ overflow' = IF isOpen # modal.isOpen THEN ScrollEffect(isOpen) ELSE overflow
  /\ UNCHANGED previewAside

\* the component unmounts: the cleanups run, the state is gone
PreviewUnmount ==
  /\ modal.mounted
  /\ modal' = [mounted |-> FALSE, isOpen |-> FALSE, file |-> NoPreview,
               textContent |-> "", isLoading |-> FALSE, error |-> ""]
  /\ overflow' = ScrollCleanup
  /\ UNCHANGED textFetches
  /\ UNCHANGED previewAside

\* fetch(file.url) resolves and response.text() gives content
TextLoads(i, content) ==
  /\ i \in DOMAIN textFetches
  /\ modal' = IF modal.mounted
                THEN [modal EXCEPT !.textContent = content, !.isLoading = FALSE]
                ELSE modal
  /\ textFetches' = Remove(textFetches, i)
  /\ UNCHANGED overflow
  /\ UNCHANGED previewAside

\* fetch(file.url) rejects
TextFails(i) ==
  /\ i \in DOMAIN textFetches
  /\ modal' = IF modal.mounted
                THEN [modal EXCEPT !.error = "Failed to load file content",
                                   !.isLoading = FALSE]
                ELSE modal
  /\ textFetches' = Remove(textFetches, i)
  /\ UNCHANGED overflow
  /\ UNCHANGED previewAside

PreviewNext ==
  \/ \E isOpen \in BOOLEAN, file \in PreviewFiles : PreviewMount(isOpen, file)
  \/ \E isOpen \in BOOLEAN, file \in PreviewFiles : PreviewProps(isOpen, file)
  \/ PreviewUnmount
  \/ \E i \in 1..MaxTextFetches, content \in Contents : TextLoads(i, content)
  \/ \E i \in 1..MaxTextFetches : TextFails(i)

PreviewSpec == Init /\ [][PreviewNext]_vars

----------------------------------------------------------------------------
(* The server with its handlers interleaved at their awaits *)

\* the List and Delete Endpoints serve at most this many requests
MaxRequests == 2

\* a request of the concurrent server: where it stands (pc), what readdir gave
\* it (names), the stats still pending (left) and their results (stats), the
\* name find chose (target), and its response once pc is done
Request(op, pc, id, names, target, status, error) ==
  [op |-> op, pc |-> pc, id |-> id, names |-> names,
   left |-> IF pc = "stat" THEN DOMAIN names ELSE {},
   stats |-> [k \in DOMAIN names |-> NullEntry],
   target |-> target, status |-> status, error |-> error,
   files |-> <<>>, removed |-> FALSE]

\* a slip: Promise.all without the inner try, one failed stat empties the list
Collect_allOrNothing(fileList) ==
  IF \E k \in DOMAIN fileList : fileList[k].null
    THEN <<>>
    ELSE Sort(fileList)

\* fileList.filter(file => file !== null).sort(...)
Collect(fileList) == Sort(SelectSeq(fileList, LAMBDA f : ~f.null))

\* a slip: unlink taken to succeed on a path that is gone
UnlinkSucceeds_force(fs, name) == TRUE

\* unlink throws when the path does not exist
UnlinkSucceeds(fs, name) == Exists(fs, name)

\* an upload that fills the directory, served in one step with the clock
\* unread since the last one; readdir lists the new file last
ConcPost ==
  /\ \E fileId \in FreshIds : PostStore(Photo, fileId, Len(files) + 1, now)
  /\ UNCHANGED <<browserVars, reqs>>

\* GET /api/files up to Promise.all: readdir has answered, every stat is sent
GetReaddir ==
  /\ Len(reqs) < MaxRequests
  /\ reqs' = Append(reqs,
                    IF dirExists
                      THEN Request("GET", "stat", <<>>, Readdir(files), NoName, 0, "")
                      ELSE Request("GET", "done", <<>>, <<>>, NoName, ListStatus, ""))
  /\ UNCHANGED <<serverVars, browserVars>>

\* one stat of request r answers: the descriptor, or null when it throws
GetStat(r, k) ==
  /\ r \in DOMAIN reqs
  /\ reqs[r].op = "GET" /\ reqs[r].pc = "stat" /\ k \in reqs[r].left
  /\ reqs' = [reqs EXCEPT ![r].left = @ \ {k},
                          ![r].stats[k] = Descriptor(files, reqs[r].names[k])]
  /\ UNCHANGED <<serverVars, browserVars>>

\* Promise.all has resolved: filter, sort, respond
GetRespond(r) ==
  /\ r \in DOMAIN reqs
  /\ reqs[r].op = "GET" /\ reqs[r].pc = "stat" /\ reqs[r].left = {}
  /\ reqs' = [reqs EXCEPT ![r].pc = "done", ![r].status = ListStatus,
                          ![r].files = Collect(reqs[r].stats)]
  /\ UNCHANGED <<serverVars, browserVars>>

\* DELETE /api/upload/{id}, for an identifier an upload returned, up to unlink:
\* readdir has answered, find has chosen
DelReaddir(fileId) ==
  /\ Len(reqs) < MaxRequests
  /\ fileId \in generated
  /\ LET names == Readdir(files)
         found == Find(names, fileId)
     IN reqs' = Append(reqs,
                  IF ~dirExists
                    THEN Request("DELETE", "done", fileId, <<>>, NoName, 404,
                                 "File not found or already deleted")
                  ELSE IF found = 0
                    THEN Request("DELETE", "done", fileId, names, NoName, 404,
                                 "File not found")
                  ELSE Request("DELETE", "unlink", fileId, names, names[found], 0, ""))
  /\ UNCHANGED <<serverVars, browserVars>>

\* unlink of request r answers: success, or it throws into the inner catch
DelUnlink(r) ==
  /\ r \in DOMAIN reqs
  /\ reqs[r].op = "DELETE" /\ reqs[r].pc = "unlink"
  /\ IF UnlinkSucceeds(files, reqs[r].target)
       THEN /\ files' = Unlink(files, reqs[r].target)
            /\ deletes' = deletes \cup {[id |-> reqs[r].id, fileName |-> reqs[r].target]}
            /\ reqs' = [reqs EXCEPT ![r].pc = "done", ![r].status = 200,
                                    ![r].removed = Exists(files, reqs[r].target)]
       ELSE /\ reqs' = [reqs EXCEPT ![r].pc = "done", ![r].status = 404,
                                    ![r].error = "File not found or already deleted"]
            /\ UNCHANGED <<files, deletes>>
  /\ UNCHANGED <<dirExists, generated, now, resp, uploads>>
  /\ UNCHANGED browserVars

ConcNext ==
  \/ ConcPost
  \/ GetReaddir
  \/ \E r \in 1..MaxRequests, k \in 1..MaxUploads : GetStat(r, k)
  \/ \E r \in 1..MaxRequests : GetRespond(r)
  \/ \E fileId \in UuidPool : DelReaddir(fileId)
  \/ \E r \in 1..MaxRequests : DelUnlink(r)

ConcSpec == Init /\ [][ConcNext]_vars

----------------------------------------------------------------------------
(* The dropzone's pre-filter beside the Upload Endpoint's validation *)

\* the accept option: the MIME keys, a key "x/*" given by its category x
AcceptTypes ==
  { "application/pdf", "application/msword",
    "application/vnd.openxmlformats-officedocument.wordprocessingml.document" }
AcceptCategories == {"image", "text"}

\* the accept option: the extensions listed under the keys
AcceptExtensions ==
  { <<".", "p", "n", "g">>, <<".", "j", "p", "g">>, <<".", "j", "p", "e", "g">>,
    <<".", "g", "i", "f">>, <<".", "p", "d", "f">>, <<".", "t", "x", "t">>,
    <<".", "m", "d">>, <<".", "d", "o", "c">>, <<".", "d", "o", "c", "x">> }

\* the part of a MIME type before its "/"
BaseType(type) ==
  IF type \in {"image/jpeg", "image/png", "image/gif", "image/webp", "image/bmp"}
    THEN "image"
  ELSE IF type \in {"text/plain", "text/markdown", "text/csv"} THEN "text"
  ELSE IF type = "" THEN ""
  ELSE "application"

EndsWith(s, e) == Len(e) <= Len(s) /\ SubSeq(s, Len(s) - Len(e) + 1, Len(s)) = e

\* the dropzone lets a file through when its type is a key of accept (or of a
\* key's category), or its name ends in a listed extension whatever the case,
\* and its size is at most maxSize
Accepts(file) ==
  /\ \/ file.type \in AcceptTypes
     \/ BaseType(file.type) \in AcceptCategories
     \/ \E e \in AcceptExtensions : EndsWith(ToLowerCase(file.name), e)
  /\ file.bytes.size <= 10 * 1024 * 1024

\* the checks of POST between formData.get and the write
Validates(file) == ~TooLarge(file) /\ TypeAllowed(file)

ProbeNames ==
  { <<"a", ".", "p", "n", "g">>, <<"a", ".", "P", "D", "F">>, <<"a", ".", "b", "m", "p">>,
    <<"a", ".", "w", "e", "b", "p">>, <<"a", ".", "c", "s", "v">>,
    <<"a", ".", "z", "i", "p">>, <<"p", "d", "f">>, <<"a", ".", "t", "x", "t">> }

ProbeTypes == AllowedTypes \cup {"image/bmp", "text/csv", "application/zip", ""}

ProbeFiles ==
  { File(name, type, bytes) :
      name \in ProbeNames, type \in ProbeTypes, bytes \in {Small, AtLimit, OverLimit} }

probeAside == <<serverVars, widgetVars, fetchVars, xhrVars, previewVars, reqs>>

\* the user picks a file
Pick(file) ==
  /\ probe' = [file |-> file, dropzone |-> "none", server |-> "none"]
  /\ UNCHANGED probeAside

\* the dropzone sorts it into acceptedFiles or fileRejections
DropzoneFilters ==
  /\ probe.file.present /\ probe.dropzone = "none"
  /\ probe' = [probe EXCEPT !.dropzone =
                 IF Accepts(probe.file) THEN "accepted" ELSE "rejected"]
  /\ UNCHANGED probeAside

\* the Upload Endpoint validates it
ServerValidates ==
  /\ probe.file.present /\ probe.server = "none"
  /\ probe' = [probe EXCEPT !.server =
                 IF Validates(probe.file) THEN "accepted" ELSE "rejected"]
  /\ UNCHANGED probeAside

ProbeNext ==
  \/ \E file \in ProbeFiles : Pick(file)
  \/ DropzoneFilters
  \/ ServerValidates

ProbeSpec == Init /\ [][ProbeNext]_vars

----------------------------------------------------------------------------
(* What the histories say *)

\* the stored names a DELETE has unlinked, and the identifiers a DELETE
\* has answered with success
Unlinked == { d.fileName : d \in deletes }
DeletedIds == { d.id : d \in deletes }

\* an upload no DELETE has removed since
Live(u) == u.filename \notin Unlinked

\* GET of a static path below /uploads/: the bytes of the entry of that name
FetchUrl(url) ==
  LET name == SubSeq(url, 4, Len(url))
  IN IF SubSeq(url, 1, 3) = <<"/", "uploads", "/">> /\ Exists(files, name)
       THEN Stat(files, name).bytes
       ELSE [data |-> "404", size |-> 0]

\* the extension of a file name: what follows its last ".", and the whole
\* name when it holds none (the segment the Upload Endpoint appends)
ExtensionOf(name) ==
  LET dots == { i \in 1..Len(name) : name[i] = "." }
      last == IF dots = {} THEN 0 ELSE CHOOSE i \in dots : \A j \in dots : j <= i
  IN SubSeq(name, last + 1, Len(name))

TenMiB == 10 * 1024 * 1024

\* the identifiers of the files stored when the last request arrived
StoredIdsBefore ==
  { Descriptor(resp.before.files, resp.before.files[i].name).id :
      i \in 1..Len(resp.before.files) }

StorageUnchanged == files = resp.before.files /\ dirExists = resp.before.dirExists

----------------------------------------------------------------------------
(* The claims *)

\* C1: after a successful POST of a file of at most 10 MiB and an allowed type,
\* and no delete of it since, the list GET /api/files returns holds an entry
\* for it whose size is the uploaded byte length and whose type is the one the
\* extension table gives the uploaded file's extension.
C1_UploadedFileIsListed ==
  resp.op = "GET" =>
    \A i \in DOMAIN uploads :
      LET u == uploads[i] IN
      (u.bytes.size <= TenMiB /\ u.type \in AllowedTypes /\ Live(u)) =>
        \E k \in DOMAIN resp.files :
          /\ resp.files[k].url = u.url
          /\ resp.files[k].size = u.bytes.size
          /\ resp.files[k].type = getFileType(ExtensionOf(u.originalName))

C1_Witness ==
  /\ resp.op = "GET" /\ resp.status = 200 /\ Len(resp.files) = 2
  /\ \E i \in DOMAIN uploads :
       /\ Live(uploads[i]) /\ uploads[i].bytes.size = TenMiB
       /\ uploads[i].originalName = <<"a", ".", "b", ".", "P", "D", "F">>
       /\ \E k \in DOMAIN resp.files :
            resp.files[k].url = uploads[i].url /\ resp.files[k].type = "application/pdf"

\* C2: once POST has returned an identifier, DELETE of that identifier reports
\* success (unless a delete already removed the file) and removes the file, and
\* no later GET /api/files lists an entry with that identifier.
C2_DeleteRemovesUploaded ==
  /\ resp.op = "DELETE" =>
       \A i \in DOMAIN uploads :
         uploads[i].id = resp.id =>
           /\ Live(uploads[i]) => resp.status = 200
           /\ ~Exists(files, uploads[i].filename)
           /\ resp.status = 200 => uploads[i].id \in DeletedIds
  /\ resp.op = "GET" =>
       \A i \in DOMAIN uploads :
         uploads[i].id \in DeletedIds =>
           \A k \in DOMAIN resp.files : resp.files[k].id # uploads[i].id

C2_Witness ==
  /\ resp.op = "GET" /\ Len(resp.files) = 1
  /\ \E i \in DOMAIN uploads :
       /\ uploads[i].id \in DeletedIds
       /\ [id |-> uploads[i].id, fileName |-> uploads[i].filename] \in deletes

\* C3: DELETE with an identifier that is the identifier of no stored file
\* answers 404 and removes no file.
C3_UnknownIdIsNotFound ==
  (resp.op = "DELETE" /\ resp.id \notin StoredIdsBefore) =>
    (resp.status = 404 /\ StorageUnchanged)

\* C4: POST of a file of more than 10*1024*1024 bytes answers 400 and leaves
\* the Storage Directory as it was, whatever the declared type.
C4_OversizeRejected ==
  (resp.op = "POST" /\ resp.file.present /\ resp.file.bytes.size > TenMiB) =>
    (resp.status = 400 /\ StorageUnchanged)

C4_Witness ==
  /\ resp.op = "POST" /\ resp.file.bytes.size = TenMiB + 1
  /\ resp.file.type \in AllowedTypes
  /\ resp.status = 400 /\ resp.error = "File too large. Max size is 10MB."
  /\ Len(files) = 1 /\ Cardinality(generated) < MaxUploads

\* C5: POST of a file whose declared type is none of the nine allowed answers
\* 400 and leaves the Storage Directory as it was.
C5_DisallowedTypeRejected ==
  (resp.op = "POST" /\ resp.file.present /\ resp.file.type \notin AllowedTypes) =>
    (resp.status = 400 /\ StorageUnchanged)

C5_Witness ==
  /\ resp.op = "POST" /\ resp.file.type = "application/zip"
  /\ resp.file.bytes.size <= TenMiB
  /\ resp.status = 400 /\ resp.error = "File type not allowed."
  /\ Len(files) = 1 /\ Cardinality(generated) < MaxUploads

\* C6: GET /api/files answers success with an empty list whenever the Storage
\* Directory is missing or empty.
C6_EmptyOrMissingListsNothing ==
  (resp.op = "GET" /\ (~dirExists \/ files = <<>>)) =>
    (resp.status = 200 /\ resp.files = <<>>)

C6_Witness ==
  /\ resp.op = "GET" /\ resp.status = 200 /\ resp.files = <<>>
  /\ dirExists /\ files = <<>> /\ Len(uploads) = 2 /\ Cardinality(deletes) = 2

\* C7: the list GET /api/files returns is in descending order of creation
\* time, and of two uploads with different creation times the later upload is
\* listed first.
C7_NewestFirst ==
  resp.op = "GET" =>
    /\ \A i, j \in DOMAIN resp.files :
         (i < j /\ resp.files[i].uploadedAt # resp.files[j].uploadedAt) =>
           resp.files[i].uploadedAt > resp.files[j].uploadedAt
    /\ \A a, b \in DOMAIN uploads :
         \A i, j \in DOMAIN resp.files :
           ( /\ a < b
             /\ resp.files[i].url = uploads[a].url
             /\ resp.files[j].url = uploads[b].url
             /\ resp.files[i].uploadedAt # resp.files[j].uploadedAt ) => j < i

C7_Witness ==
  /\ resp.op = "GET" /\ Len(resp.files) = 2 /\ Len(uploads) = 2
  /\ resp.files[1].uploadedAt > resp.files[2].uploadedAt
  /\ resp.files[1].url = uploads[2].url
  /\ files[1].name = uploads[1].filename

\* C8: the bytes served at the url an upload returned are the bytes uploaded,
\* for as long as the file is not deleted, whatever else is uploaded or
\* deleted.
C8_RoundTrip ==
  \A i \in DOMAIN uploads :
    Live(uploads[i]) =>
      /\ uploads[i].url = <<"/", "uploads", "/">> \o uploads[i].id \o <<".">>
                            \o ExtensionOf(uploads[i].originalName)
      /\ FetchUrl(uploads[i].url) = uploads[i].bytes

C8_Witness ==
  /\ Len(uploads) = 2 /\ deletes # {}
  /\ Live(uploads[1]) /\ ~Live(uploads[2])
  /\ uploads[1].type = "text/plain"
  /\ FetchUrl(uploads[1].url) = uploads[1].bytes

\* C10: in the Upload Widget a status entry that is error stays error, under
\* every drop, upload result and status-clear timer, until the user drops a file
\* of that name again.
C10_ErrorPersists ==
  [][ \A n \in DOMAIN uploadStatuses :
        uploadStatuses[n].status = "error" =>
          \/ n \in DOMAIN uploadStatuses' /\ uploadStatuses'[n].status = "error"
          \/ dropCount' # dropCount /\ n \in NamesOf(drops'[Len(drops')]) ]_vars

\* C9: for every file the Upload Endpoint stored, whatever its original name,
\* the id GET /api/files reports is the identifier the upload returned, and no
\* two listed entries share an id.
C9_ListedIdIsUploadId ==
  resp.op = "GET" =>
    /\ \A i \in DOMAIN uploads :
         Live(uploads[i]) =>
           \E k \in DOMAIN resp.files :
             /\ resp.files[k].fileName = uploads[i].filename
             /\ resp.files[k].id = uploads[i].id
    /\ \A i, j \in DOMAIN resp.files :
         i # j => resp.files[i].id # resp.files[j].id

C9_Witness ==
  /\ resp.op = "GET" /\ Len(resp.files) = 2
  /\ \E i, j \in DOMAIN uploads :
       /\ uploads[i].originalName = <<"a", ".", "b", ".", "P", "D", "F">>
       /\ uploads[j].originalName = <<"a", ".">>
       /\ Live(uploads[i]) /\ Live(uploads[j])

\* C11: a deleteFile call of the Upload Widget (either variant) that settles
\* without a 2xx response of the Delete Endpoint (a 404, a 500, a failed
\* request) leaves the displayed list as it was.
C11_RemovedOnlyOnSuccess ==
  (outcome.op = "delete" /\ outcome.status \notin 200..299) =>
    ~outcome.changed

\* C12: whatever the Preview Modal is put through (mount, open, close, another
\* file, unmount, text loads), body overflow is 'hidden' exactly when the modal
\* is mounted with isOpen true, and every step that closes or unmounts an open
\* modal leaves it 'unset'.
C12_ScrollLockedWhileOpen ==
  [][ /\ (overflow' = "hidden") <=> (modal'.mounted /\ modal'.isOpen)
      /\ (modal.mounted /\ modal.isOpen /\ ~(modal'.mounted /\ modal'.isOpen)) =>
           overflow' = "unset" ]_vars

C12_Witness ==
  /\ modal.mounted /\ ~modal.isOpen /\ modal.textContent = "hello"
  /\ overflow = "unset"

\* C13: a GET /api/files that runs while files are deleted under it answers
\* 200 with exactly the descriptors its stats returned; an entry readdir named
\* whose stat failed is in the list under no name.
C13_ListSurvivesDelete ==
  \A r \in DOMAIN reqs :
    (reqs[r].op = "GET" /\ reqs[r].pc = "done") =>
      LET g == reqs[r]
          ok == { k \in DOMAIN g.names : ~g.stats[k].null }
      IN /\ g.status = 200 /\ g.error = ""
         /\ Len(g.files) = Cardinality(ok)
         /\ \A k \in ok : \E j \in DOMAIN g.files : g.files[j] = g.stats[k]
         /\ \A k \in DOMAIN g.names \ ok :
              \A j \in DOMAIN g.files : g.files[j].fileName # g.names[k]

C13_Witness ==
  \E r, d \in DOMAIN reqs :
    /\ reqs[r].op = "GET" /\ reqs[r].pc = "done" /\ reqs[r].status = 200
    /\ Len(reqs[r].names) = 2 /\ Len(reqs[r].files) = 1
    /\ reqs[d].op = "DELETE" /\ reqs[d].status = 200 /\ r < d
    /\ \E k \in DOMAIN reqs[r].names :
         reqs[r].names[k] = reqs[d].target /\ reqs[r].stats[k].null

\* C16: whatever the order in which the responses to the Upload Widget's
\* uploads, refreshes and deletes arrive, no two entries of its displayed list
\* have the same id.
C16_NoDuplicateIds ==
  \A i, j \in DOMAIN uploadedFiles :
    i # j => uploadedFiles[i].id # uploadedFiles[j].id

\* C17: of two DELETE requests for the identifier of a file that was stored
\* when the first of them scanned the directory, and that no other DELETE
\* aimed at, however their steps interleave: one answers 200, the other 404,
\* one unlink removed the file, and the file is gone.
C17_OneDeleteWins ==
  \A a, b \in DOMAIN reqs :
    ( /\ a < b
      /\ reqs[a].op = "DELETE" /\ reqs[b].op = "DELETE"
      /\ reqs[a].id = reqs[b].id
      /\ reqs[a].pc = "done" /\ reqs[b].pc = "done"
      /\ reqs[a].target # NoName
      /\ \A c \in DOMAIN reqs \ {a, b} :
           reqs[c].op = "DELETE" => reqs[c].target # reqs[a].target ) =>
      /\ {reqs[a].status, reqs[b].status} = {200, 404}
      /\ reqs[a].removed # reqs[b].removed
      /\ reqs[a].removed <=> reqs[a].status = 200
      /\ ~Exists(files, reqs[a].target)

C17_Witness ==
  \E a, b \in DOMAIN reqs :
    /\ a < b /\ reqs[a].op = "DELETE" /\ reqs[b].op = "DELETE"
    /\ reqs[a].id = reqs[b].id /\ reqs[a].target = reqs[b].target
    /\ reqs[a].target # NoName
    /\ reqs[a].status = 404 /\ reqs[a].error = "File not found or already deleted"
    /\ reqs[b].status = 200 /\ reqs[b].removed
    /\ Len(files) = 1

\* C14: the dropzone's accept/maxSize filter and the Upload Endpoint's size and
\* type validation agree on every file: what one lets through the other lets
\* through.
C14_SameAllowList ==
  (probe.dropzone # "none" /\ probe.server # "none") =>
    probe.dropzone = probe.server

\* C15: a DELETE that answers 200 took out of the Storage Directory the first
\* entry, in directory order, whose name starts with the identifier, and left
\* every other entry (name, bytes, creation time) and their order as they
\* were; a DELETE that answers 404 or 500 left the directory as it was.
C15_DeleteFrame ==
  resp.op = "DELETE" =>
    LET before == resp.before.files
        hits == { i \in DOMAIN before : StartsWith(before[i].name, resp.id) }
    IN /\ resp.status \in {200, 404, 500}
       /\ resp.status = 200 =>
            /\ hits # {}
            /\ \E first \in hits :
                 /\ \A j \in hits : first <= j
                 /\ files = Remove(before, first)
                 /\ resp.filename = before[first].name
            /\ dirExists = resp.before.dirExists
       /\ resp.status \in {404, 500} => StorageUnchanged

C15_Witness ==
  /\ resp.op = "DELETE" /\ resp.status = 200 /\ resp.id = <<"a">>
  /\ Len(resp.before.files) = 2 /\ Len(files) = 1
  /\ \A i \in DOMAIN resp.before.files : StartsWith(resp.before.files[i].name, <<"a">>)
  /\ files[1] = resp.before.files[2]

====
